---- MODULE Spec2Model ----
(***************************************************************************)
(* Dual-protocol port multiplexer of TobyTodo (func main, HTTPS branch).   *)
(*                                                                         *)
(* One listening socket; every accepted connection gets a goroutine that   *)
(* peeks the first byte through a BufferedConn and either hands the        *)
(* connection to the HTTPS server through an unbuffered channel wrapped as *)
(* a net.Listener (ChanListener), or answers it with a 301 redirect.        *)
(*                                                                         *)
(* The byte stream of a connection is a sequence of wire units.  A unit is *)
(* a fragment of the client's bytes, named by a string; FirstByte gives    *)
(* the value of its leading byte, which is all that Peek(1) looks at.      *)
(***************************************************************************)
EXTENDS Integers, Sequences, FiniteSets, TLC

\* ------------------------------------------------------------------ bounds

\* Connections the accept loop returns in one run.
MaxConns == 2
\* Size of the bufio.Reader buffer inside BufferedConn, in wire units.
BufSize == 2
\* Largest len(p) a downstream consumer passes to BufferedConn.Read.
MaxRead == 2
\* "listener closed" errors ChanListener.Accept is followed through.
MaxAcceptErrs == 2
\* Peek calls recorded on one BufferedConn.
MaxPeeks == 3
\* Errors of l.Accept the accept loop is followed through.
MaxLoopErrs == 2
\* Goroutines calling into one Storage, one UserManager at the same time.
MaxProcs == 2
\* Calls made on one Storage, one UserManager in one run.
MaxCalls == 3
\* Todos one Storage holds.
MaxTodos == 2
\* Tokens a SessionManager issues in one run.
MaxTokens == 4
\* Width in bits of Todo.Order (a Go int, 64 bits on the build's targets),
\* scaled down; arithmetic on it wraps at this width.
IntBits == 4

\* --------------------------------------------------------------- constants

\* part_003:140  prefix[0] == 0x16
TLSMarker == 22

\* --------------------------------------------------------------- wire units

U_TLS   == "0x16"                  \* record-type byte of a TLS handshake record
U_HELLO == "ClientHello"           \* the rest of that record
U_GET   == "GET "                  \* method and the space after it
U_FOO   == "/foo?x=1"           \* request-target in canonical form, then " HTTP/1.1" CRLF
U_HASH  == "/a#b"               \* request-target with a byte url.URL.String escapes, then " HTTP/1.1" CRLF
U_HOST  == "Host: example.com"  \* the Host header line, with its CRLF
U_CRLF  == "CRLF"               \* the blank line that ends the headers
U_JUNK  == "NUL"                \* a line (a NUL byte and CRLF) that is no request line and no header
U_REQ   == "GET /foo?x=1 HTTP/1.1 Host: example.com"  \* a whole request in one segment:
                                \* request line, Host header and blank line

Unit == {U_TLS, U_HELLO, U_GET, U_FOO, U_HASH, U_HOST, U_CRLF, U_JUNK, U_REQ}

\* The leading byte of each unit.
FirstByte(u) ==
    CASE u = U_TLS   -> 22
      [] u = U_HELLO -> 1
      [] u = U_GET   -> 71
      [] u = U_FOO   -> 47
      [] u = U_HASH  -> 47
      [] u = U_HOST  -> 72
      [] u = U_CRLF  -> 13
      [] u = U_JUNK  -> 0
      [] u = U_REQ   -> 71

\* What a client may intend to send on one connection.  A client may stop
\* after any prefix and may close its end at any time.
TLSScript      == <<U_TLS, U_HELLO>>
GoodScript     == <<U_GET, U_FOO, U_HOST, U_CRLF>>
NoHostScript   == <<U_GET, U_FOO, U_CRLF>>
HashScript     == <<U_GET, U_HASH, U_HOST, U_CRLF>>
JunkScript     == <<U_JUNK>>
OneSegScript   == <<U_REQ>>
TwoHostScript  == <<U_GET, U_FOO, U_HOST, U_HOST, U_CRLF>>
PipelinedScript == <<U_REQ, U_REQ>>     \* a second request behind the first

\* Clients of the whole-system specification: each sends its bytes in one or
\* two segments.  Clients of the one-connection specification: every kind of
\* request, sent piece by piece.
Scripts     == {TLSScript, OneSegScript, JunkScript}
AllScripts  == {TLSScript, GoodScript, NoHostScript, HashScript, JunkScript,
                TwoHostScript, OneSegScript, PipelinedScript}

Min(a, b) == IF a < b THEN a ELSE b
Take(s, k) == SubSeq(s, 1, k)
Drop(s, k) == SubSeq(s, k + 1, Len(s))

VARIABLES
    conns,          \* Seq of per-connection records, in accept order
    sendq,          \* goroutines parked in `tlsConnChan <- bufConn`, FIFO
    recvWaiting,    \* the HTTPS server is parked in `<-l.ConnChan`
    chanClosed,     \* the channel tlsConnChan has been closed
    accepted,       \* connections ChanListener.Accept has returned, in order
    acceptErrs,     \* "listener closed" errors ChanListener.Accept has returned
    closeCalled,    \* ChanListener.Close has been called
    enqueued,       \* connections in the order their sends on tlsConnChan began
    lastPeek,       \* the Peek calls made on a BufferedConn before any Read: n, data, err
    flags,          \* the command line: --https, --tls-cert, --tls-key
    mainPc,         \* where func main stands
    bound,          \* listening sockets the process has bound
    rawAddr,        \* l.Addr() of the listener net.Listen returned
    addrVal,        \* tlsListener.AddrVal
    addrSeen,       \* the values ChanListener.Addr has returned
    loopLog,        \* the errors of l.Accept the accept loop has logged
    todos,          \* Storage.Todos
    file,           \* the Storage's file: whether it exists, and its content
    mu,             \* holder of Storage.mu (0: unlocked)
    sproc,          \* per caller of the Storage: where it stands, its call, its marshalled data
    calls,          \* calls begun on the Storage or the UserManager
    wfail,          \* some os.WriteFile has failed
    lastOp,         \* the latest call completed on the Storage, with what it returned
    users,          \* UserManager.Users: username -> password hash
    ufile,          \* what data/users.json holds
    rproc,          \* per caller of Register: its pending call
    regLog,         \* the Register calls that have returned, with their results
    sessions,       \* SessionManager.Sessions: token -> username
    issued,         \* every token CreateSession has returned, with its username
    revoked,        \* tokens passed to DeleteSession since they were issued
    lastSess        \* the latest call on the SessionManager, with what it returned

vars == <<conns, sendq, recvWaiting, chanClosed, accepted, acceptErrs, closeCalled,
          enqueued, lastPeek, flags, mainPc, bound, rawAddr, addrVal, addrSeen,
          loopLog, todos, file, mu, sproc, calls, wfail, lastOp, users, ufile, rproc, regLog,
          sessions, issued, revoked, lastSess>>

\* The listener's address, as main stores it.
addrVars == <<rawAddr, addrVal>>

\* The Storage, the UserManager and the SessionManager.
storageVars == <<todos, file, mu, sproc, wfail, lastOp>>
authVars    == <<users, ufile, rproc, regLog>>
sessionVars == <<sessions, issued, revoked, lastSess>>
appVars     == <<storageVars, authVars, sessionVars, calls>>

\* Everything of the multiplexer.
muxVars == <<conns, sendq, recvWaiting, chanClosed, accepted, acceptErrs, closeCalled,
             enqueued, lastPeek, flags, mainPc, bound, rawAddr, addrVal, addrSeen,
             loopLog>>

\* What only the steps of one specification touch.
extra == <<addrSeen, loopLog, appVars>>

\* What the multiplexer's steps leave alone.
others == <<lastPeek, flags, mainPc, bound, addrVars, extra>>

\* The Storage's file before anything was written to it.
NoFile == [exists |-> FALSE, data |-> <<>>]

\* No address: the zero value of ChanListener.AddrVal.
NoAddr == "nil"
\* The address of the socket net.Listen("tcp", addr) bound.
ListenAddr == "[::]:8080"

ConnIds == 1..Len(conns)

\* Values of --tls-cert and --tls-key: not given (the default "") or a path.
CertPaths == {"", "cert.pem"}
KeyPaths  == {"", "key.pem"}

\* A connection as l.Accept returns it and `go func(c net.Conn)` starts on it.
NewConn(script) ==
    [ script     |-> script,   \* what the client means to send
      sent       |-> 0,        \* units the client has sent
      peerClosed |-> FALSE,    \* the client has closed its end
      wire       |-> <<>>,     \* sent, not yet read from the socket
      buf        |-> <<>>,     \* BufferedConn.r: read from the socket, unread
      got        |-> <<>>,     \* delivered by BufferedConn.Read to its caller
      pc         |-> "peek",   \* where the per-connection goroutine stands
      owner      |-> "task",   \* who holds the connection
      eng        |-> "none",   \* where the HTTPS server stands with it
      path       |-> <<>>,     \* what has been done with the connection
      closedBy   |-> <<>>,     \* one entry per Close call, naming the caller
      resp       |-> <<>> ]    \* responses written to the peer

Init ==
    /\ conns = <<>>
    /\ sendq = <<>>
    /\ recvWaiting = FALSE
    /\ chanClosed = FALSE
    /\ accepted = <<>>
    /\ acceptErrs = 0
    /\ closeCalled = FALSE
    /\ enqueued = <<>>
    /\ lastPeek = <<>>
    /\ flags \in [https : BOOLEAN, cert : CertPaths, key : KeyPaths]
    /\ mainPc = "start"
    /\ bound = 0
    /\ rawAddr = NoAddr
    /\ addrVal = NoAddr
    /\ addrSeen = {}
    /\ loopLog = <<>>
    /\ todos = <<>>
    /\ file = NoFile
    /\ mu = 0
    /\ sproc = [p \in 1..MaxProcs |-> [pc |-> "idle", op |-> "none", data |-> <<>>]]
    /\ calls = 0
    /\ wfail = FALSE
    /\ lastOp = [ op |-> "none", call |-> [op |-> "none"], before |-> <<>>,
                  err |-> FALSE, got |-> FALSE, result |-> <<>> ]
    /\ users = <<>>
    /\ ufile = <<>>
    /\ rproc = [p \in 1..MaxProcs |-> [pc |-> "idle", username |-> "", password |-> ""]]
    /\ regLog = <<>>
    /\ sessions = <<>>
    /\ issued = <<>>
    /\ revoked = {}
    /\ lastSess = <<>>

\* ------------------------------------------------------- BufferedConn (bufio)

\* A Peek under a read deadline: it returns when the deadline passes, with
\* an error if the bytes have not come.
PeekReadyDeadline(conn, n) == TRUE

\* bufio.Reader.Peek(n) can return: n bytes are there, or the peer has closed.
\* Otherwise the underlying Read blocks.
PeekReady(conn, n) ==
    Len(conn.buf) + Len(conn.wire) >= n \/ conn.peerClosed

\* A Peek that consumes what it returns, as a Read would.
PeekConsuming(conn, n) ==
    LET need == IF Len(conn.buf) >= n THEN 0
                ELSE Min(BufSize - Len(conn.buf), Len(conn.wire))
        nbuf == conn.buf \o Take(conn.wire, need)
        k    == Min(n, Len(nbuf))
    IN  [ conn |-> [conn EXCEPT !.buf = Drop(nbuf, k), !.wire = Drop(conn.wire, need)],
          data |-> Take(nbuf, k),
          err  |-> Len(nbuf) < n ]

\* BufferedConn.Peek(n) = bc.r.Peek(n): fill the buffer from the socket until
\* n bytes are buffered or the read fails; return the first n buffered bytes
\* without consuming them.  err: fewer than n bytes before EOF.
Peek(conn, n) ==
    LET need == IF Len(conn.buf) >= n THEN 0
                ELSE Min(BufSize - Len(conn.buf), Len(conn.wire))
        nbuf == conn.buf \o Take(conn.wire, need)
    IN  [ conn |-> [conn EXCEPT !.buf = nbuf, !.wire = Drop(conn.wire, need)],
          data |-> Take(nbuf, Min(n, Len(nbuf))),
          err  |-> Len(nbuf) < n ]

\* BufferedConn.Read can return: buffered bytes, bytes on the socket, or EOF.
ReadReady(conn) ==
    conn.buf # <<>> \/ conn.wire # <<>> \/ conn.peerClosed

\* A Read that bypasses the bufio.Reader and reads the embedded net.Conn.
ReadUnbuffered(conn, n) ==
    LET k == Min(n, Len(conn.wire))
    IN  [ conn |-> [conn EXCEPT !.wire = Drop(conn.wire, k),
                                !.got  = conn.got \o Take(conn.wire, k)],
          data |-> Take(conn.wire, k),
          eof  |-> k = 0 ]

\* BufferedConn.Read(p) with len(p) = n, = bc.r.Read(p) (bufio.Reader.Read):
\* buffered bytes first; with an empty buffer, a read of at least the buffer
\* size goes straight to the socket, a smaller one fills the buffer once and
\* copies from it.  eof: nothing buffered, nothing on the socket, peer closed.
Read(conn, n) ==
    IF conn.buf # <<>>
    THEN LET k == Min(n, Len(conn.buf))
         IN  [ conn |-> [conn EXCEPT !.buf = Drop(conn.buf, k),
                                     !.got = conn.got \o Take(conn.buf, k)],
               data |-> Take(conn.buf, k),
               eof  |-> FALSE ]
    ELSE IF n >= BufSize
    THEN LET k == Min(n, Len(conn.wire))
         IN  [ conn |-> [conn EXCEPT !.wire = Drop(conn.wire, k),
                                     !.got  = conn.got \o Take(conn.wire, k)],
               data |-> Take(conn.wire, k),
               eof  |-> k = 0 ]
    ELSE LET f == Min(BufSize, Len(conn.wire))
             k == Min(n, f)
         IN  [ conn |-> [conn EXCEPT !.buf  = SubSeq(conn.wire, k + 1, f),
                                     !.wire = Drop(conn.wire, f),
                                     !.got  = conn.got \o Take(conn.wire, k)],
               data |-> Take(conn.wire, k),
               eof  |-> f = 0 ]

\* --------------------------------------------------------- http.ReadRequest

\* Units that end with CRLF, so that a line is complete when one arrives.
LineEnd(u) == u \in {U_FOO, U_HASH, U_HOST, U_CRLF, U_JUNK, U_REQ}

\* One unit further in http.ReadRequest.  st: "start" (nothing of the request
\* line yet), "method" (method read), "headers" (request line accepted),
\* "garbage" (inside a line that cannot parse), and the results "ok", "bad".
ParseStep(p, u) ==
    CASE p.st = "start" ->
           IF u = U_GET THEN [p EXCEPT !.st = "method"]
           ELSE IF u = U_REQ
                THEN [p EXCEPT !.st = "ok", !.target = U_FOO, !.hosts = 1]
           ELSE IF LineEnd(u) THEN [p EXCEPT !.st = "bad"]
           ELSE [p EXCEPT !.st = "garbage"]
      [] p.st = "method" ->
           IF u \in {U_FOO, U_HASH} THEN [p EXCEPT !.st = "headers", !.target = u]
           ELSE IF LineEnd(u) THEN [p EXCEPT !.st = "bad"]
           ELSE [p EXCEPT !.st = "garbage"]
      [] p.st = "headers" ->
           IF u = U_HOST THEN [p EXCEPT !.hosts = Min(p.hosts + 1, 2)]
           ELSE IF u = U_CRLF
                THEN [p EXCEPT !.st = IF p.hosts > 1 THEN "bad" ELSE "ok"]
           ELSE IF LineEnd(u) THEN [p EXCEPT !.st = "bad"]
           ELSE [p EXCEPT !.st = "garbage"]
      [] p.st = "garbage" ->
           IF LineEnd(u) THEN [p EXCEPT !.st = "bad"] ELSE p
      [] OTHER -> p

RECURSIVE ParseFrom(_, _)
ParseFrom(p, s) ==
    IF s = <<>> \/ p.st \in {"ok", "bad"} THEN p
    ELSE ParseFrom(ParseStep(p, Head(s)), Tail(s))

\* http.ReadRequest on the bytes read so far: st = "ok" with the request,
\* "bad" when it returns an error, anything else when it needs more bytes.
\* req.Host is the Host header, and empty when the request has none.
ReadRequest(s) ==
    LET p == ParseFrom([st |-> "start", target |-> "", hosts |-> 0], s)
    IN  [ st     |-> p.st,
          Host   |-> IF p.hosts = 1 THEN "example.com" ELSE "",
          target |-> p.target ]

\* req.URL.String() of the URL url.ParseRequestURI made of the request-target:
\* the path is written escaped, so a byte that needs escaping in a path and
\* came unescaped ('#') leaves as %23; query and valid escapes stay as sent.
URLString(target) ==
    IF target = U_HASH THEN "/a%23b" ELSE target

\* net.Conn.Close, called by `who`: the socket is released, what was buffered
\* or still unread is gone with it, and the peer's end is finished too.
Close(conn, who) ==
    [conn EXCEPT !.closedBy = Append(conn.closedBy, who),
                 !.path = Append(conn.path, "close"),
                 !.wire = <<>>, !.buf = <<>>, !.peerClosed = TRUE]

\* ------------------------------------------------------ handleHTTPRedirect

\* handleHTTPRedirect up to its first read: the deferred Close is armed.
CallRedirect(conn) ==
    [conn EXCEPT !.pc = "redirect", !.owner = "redirect",
                 !.path = Append(conn.path, "redirect")]

\* The error return without the deferred Close, as with the Close written
\* after the Write instead.
RedirectFailNoClose(conn) ==
    [conn EXCEPT !.pc = "done"]

\* http.ReadRequest failed: return; the deferred conn.Close() runs.
RedirectFail(conn) ==
    Close([conn EXCEPT !.pc = "done"], "redirect")

\* The 301 response handleHTTPRedirect formats for a parsed request.
RedirectResponse(req) ==
    [ status     |-> 301,
      Location   |-> "https://" \o req.Host \o URLString(req.target),
      Connection |-> "close" ]

\* The success path of a responder that keeps the connection: it writes the
\* response and goes back to read the next request.
RedirectRespondKeepAlive(conn, req, writeOk) ==
    [conn EXCEPT !.got  = <<>>,
                 !.resp = IF writeOk THEN Append(conn.resp, RedirectResponse(req))
                          ELSE conn.resp,
                 !.path = Append(conn.path, IF writeOk THEN "respond"
                                            ELSE "writefail")]

\* The success path with the Close made only after a write that succeeded,
\* as `if _, err := conn.Write(resp); err != nil { return }` before a Close
\* that is not deferred.
RedirectRespondLeakOnWriteFail(conn, req, writeOk) ==
    IF writeOk
    THEN Close([conn EXCEPT !.pc = "done",
                            !.resp = Append(conn.resp, RedirectResponse(req)),
                            !.path = Append(conn.path, "respond")],
               "redirect")
    ELSE [conn EXCEPT !.pc = "done", !.path = Append(conn.path, "writefail")]

\* The request parsed: conn.Write(resp), whose result is ignored, then return;
\* the deferred conn.Close() runs.
RedirectRespond(conn, req, writeOk) ==
    Close([conn EXCEPT !.pc = "done",
                       !.resp = IF writeOk THEN Append(conn.resp, RedirectResponse(req))
                                ELSE conn.resp,
                       !.path = Append(conn.path, IF writeOk THEN "respond"
                                                  ELSE "writefail")],
          "redirect")

\* ---------------------------------------------- per-connection goroutine

\* The comparison the wrong way round.
RouteSwapped(b) == IF b # TLSMarker THEN "secure" ELSE "plain"

\* prefix[0] == 0x16
Route(b) == IF b = TLSMarker THEN "secure" ELSE "plain"

\* The error branch without its `return`: Close, then on to the redirect.
OnPeekErrorFallThrough(conn) ==
    [Close([conn EXCEPT !.path = Append(conn.path, "peekfail")], "task")
        EXCEPT !.pc = "redirect", !.path = Append(@, "redirect")]

\* Peek failed: c.Close(); return.
OnPeekError(conn) ==
    Close([conn EXCEPT !.pc = "done", !.path = Append(conn.path, "peekfail")],
          "task")

\* tlsConnChan <- bufConn, begun: the goroutine offers the connection.
Sending(conn) ==
    [conn EXCEPT !.pc = "send", !.path = Append(conn.path, "enqueue")]

\* The send followed by the redirect call, as with the `else` left out.
SendDoneFallThrough(conn) ==
    [conn EXCEPT !.pc = "redirect", !.path = Append(conn.path, "redirect")]

\* The send followed by a Close on the goroutine's side, as with a
\* `defer c.Close()` at the top of the goroutine.
SendDoneThenClose(conn) ==
    [conn EXCEPT !.pc = "done", !.closedBy = Append(conn.closedBy, "task")]

\* tlsConnChan <- bufConn, completed: the goroutine falls off its end.
SendDone(conn) ==
    [conn EXCEPT !.pc = "done"]

\* The receiving side of the same hand-off: ChanListener.Accept returns the
\* connection and the HTTPS server starts its handshake on it.
Delivered(conn) ==
    [conn EXCEPT !.owner = "engine", !.eng = "handshake",
                 !.path = Append(conn.path, "dequeue")]

\* ------------------------------------------------------------ func main

\* The first check with `&&` between the two paths: only a certificate and a
\* key together count.
InconsistentFlagsBoth(f) == ~f.https /\ (f.cert # "" /\ f.key # "")

\* The second check with `&&`: only both paths missing counts.
MissingCertAndKey(f) == f.cert = "" /\ f.key = ""

\* !*enableHTTPS && (*tlsCertFile != "" || *tlsKeyFile != "")
InconsistentFlags(f) == ~f.https /\ (f.cert # "" \/ f.key # "")

\* *tlsCertFile == "" || *tlsKeyFile == "", tested when *enableHTTPS
MissingCertOrKey(f) == f.cert = "" \/ f.key = ""

\* func main with the multiplexer set up whatever --https says.
MainStartAlwaysMux ==
    /\ mainPc = "start"
    /\ IF InconsistentFlags(flags)
       THEN mainPc' = "fatal_config" /\ UNCHANGED <<bound, addrVars>>
       ELSE IF flags.https /\ MissingCertOrKey(flags)
       THEN mainPc' = "fatal_config" /\ UNCHANGED <<bound, addrVars>>
       ELSE \E listenOk \in BOOLEAN :
                IF listenOk
                THEN /\ mainPc' = "https"
                     /\ bound' = bound + 1
                     /\ rawAddr' = ListenAddr
                     /\ addrVal' = ListenAddr
                ELSE mainPc' = "fatal_bind" /\ UNCHANGED <<bound, addrVars>>
    /\ UNCHANGED <<conns, sendq, recvWaiting, chanClosed, accepted, acceptErrs,
                   closeCalled, enqueued, lastPeek, flags, extra>>

\* A ChanListener built without its AddrVal field.
TLSListenerAddrValUnset(a) == NoAddr

\* tlsListener := &ChanListener{AddrVal: l.Addr(), ...}: the field's value.
TLSListenerAddrVal(a) == a

\* func main from flag.Parse to its serving loop: the two flag checks, each
\* ending the process with log.Fatal; then with --https net.Listen (which
\* binds the socket or fails, fatally), the ChanListener, the HTTPS server's
\* goroutine and the accept loop; without it r.Run(addr), which binds the
\* plain socket and serves the router on it, or fails, fatally.
MainStart ==
    /\ mainPc = "start"
    /\ IF InconsistentFlags(flags)
       THEN mainPc' = "fatal_config" /\ UNCHANGED <<bound, addrVars>>
       ELSE IF flags.https /\ MissingCertOrKey(flags)
       THEN mainPc' = "fatal_config" /\ UNCHANGED <<bound, addrVars>>
       ELSE \E listenOk \in BOOLEAN :
                IF listenOk
                THEN /\ mainPc' = IF flags.https THEN "https" ELSE "http"
                     /\ bound' = bound + 1
                     /\ IF flags.https
                        THEN /\ rawAddr' = ListenAddr
                             /\ addrVal' = TLSListenerAddrVal(ListenAddr)
                        ELSE UNCHANGED addrVars
                ELSE mainPc' = "fatal_bind" /\ UNCHANGED <<bound, addrVars>>
    /\ UNCHANGED <<conns, sendq, recvWaiting, chanClosed, accepted, acceptErrs,
                   closeCalled, enqueued, lastPeek, flags, extra>>

\* ------------------------------------------------------------------ client

\* The peer sends the next unit of its script.
ClientSend(c) ==
    /\ conns[c].closedBy = <<>>
    /\ ~conns[c].peerClosed
    /\ conns[c].sent < Len(conns[c].script)
    /\ conns' = [conns EXCEPT ![c].sent = @ + 1,
                              ![c].wire = Append(@, conns[c].script[conns[c].sent + 1])]
    /\ UNCHANGED <<sendq, recvWaiting, chanClosed, accepted, acceptErrs, closeCalled,
                 enqueued, others>>

\* The peer closes its end; reads see EOF once the socket is drained.
ClientClose(c) ==
    /\ conns[c].closedBy = <<>>
    /\ ~conns[c].peerClosed
    /\ conns' = [conns EXCEPT ![c].peerClosed = TRUE]
    /\ UNCHANGED <<sendq, recvWaiting, chanClosed, accepted, acceptErrs, closeCalled,
                 enqueued, others>>

\* ------------------------------------------------------------- accept loop

\* What l.Accept can fail with: an error that goes away (too many open files,
\* a connection aborted before it was accepted), one that does not, and the
\* error of a listener that has been closed.
AcceptErrorKinds == {"transient", "fatal", "closed"}

\* The listening socket has been closed: every later l.Accept fails the same.
ListenerGone == \E i \in DOMAIN loopLog : loopLog[i] = "closed"

\* l.Accept() returns an error: log.Printf("Accept error: %v", err); continue.
\* The error's kind is not looked at and the loop goes on to the next l.Accept.
AcceptError(kind) ==
    /\ mainPc = "https"
    /\ Len(loopLog) < MaxLoopErrs
    /\ ListenerGone => kind = "closed"
    /\ loopLog' = Append(loopLog, kind)
    /\ UNCHANGED <<conns, sendq, recvWaiting, chanClosed, accepted, acceptErrs,
                   closeCalled, enqueued, lastPeek, flags, mainPc, bound, addrVars,
                   addrSeen, appVars>>

\* The accept loop with the per-connection work done in the loop itself (no
\* `go`): the next l.Accept waits for the previous connection's work to end.
AcceptConnInline(limit, scripts) ==
    /\ mainPc = "https"
    /\ ~ListenerGone
    /\ Len(conns) < limit
    /\ \A c \in ConnIds : conns[c].pc = "done"
    /\ \E sc \in scripts : conns' = Append(conns, NewConn(sc))
    /\ UNCHANGED <<sendq, recvWaiting, chanClosed, accepted, acceptErrs, closeCalled,
                 enqueued, others>>

\* l.Accept() returns a connection and the loop starts its goroutine.
AcceptConn(limit, scripts) ==
    /\ mainPc = "https"
    /\ ~ListenerGone
    /\ Len(conns) < limit
    /\ \E sc \in scripts : conns' = Append(conns, NewConn(sc))
    /\ UNCHANGED <<sendq, recvWaiting, chanClosed, accepted, acceptErrs, closeCalled,
                 enqueued, others>>

\* The goroutine on a channel with room (make(chan net.Conn, n)): the send
\* puts the connection in the channel and the goroutine goes on and returns.
TaskClassifyBuffered(c) ==
    /\ conns[c].pc = "peek"
    /\ PeekReady(conns[c], 1)
    /\ LET r == Peek(conns[c], 1)
       IN  IF r.err
           THEN /\ conns' = [conns EXCEPT ![c] = OnPeekError(r.conn)]
                /\ UNCHANGED <<sendq, recvWaiting, accepted, enqueued>>
           ELSE IF Route(FirstByte(r.data[1])) = "secure"
           THEN IF recvWaiting
                THEN /\ conns' = [conns EXCEPT ![c] = Delivered(SendDone(Sending(r.conn)))]
                     /\ recvWaiting' = FALSE
                     /\ accepted' = Append(accepted, c)
                     /\ enqueued' = Append(enqueued, c)
                     /\ UNCHANGED sendq
                ELSE /\ conns' = [conns EXCEPT ![c] = SendDone(Sending(r.conn))]
                     /\ sendq' = Append(sendq, c)
                     /\ enqueued' = Append(enqueued, c)
                     /\ UNCHANGED <<recvWaiting, accepted>>
           ELSE /\ conns' = [conns EXCEPT ![c] = CallRedirect(r.conn)]
                /\ UNCHANGED <<sendq, recvWaiting, accepted, enqueued>>
    /\ UNCHANGED <<chanClosed, acceptErrs, closeCalled, others>>

\* The goroutine with a lost wake-up: the send parks even when the HTTPS
\* server is already waiting in Accept, and the waiting Accept is not woken.
TaskClassifyLostWakeup(c) ==
    /\ conns[c].pc = "peek"
    /\ PeekReady(conns[c], 1)
    /\ LET r == Peek(conns[c], 1)
       IN  IF r.err
           THEN /\ conns' = [conns EXCEPT ![c] = OnPeekError(r.conn)]
                /\ UNCHANGED <<sendq, enqueued>>
           ELSE IF Route(FirstByte(r.data[1])) = "secure"
           THEN /\ conns' = [conns EXCEPT ![c] = Sending(r.conn)]
                /\ sendq' = Append(sendq, c)
                /\ enqueued' = Append(enqueued, c)
           ELSE /\ conns' = [conns EXCEPT ![c] = CallRedirect(r.conn)]
                /\ UNCHANGED <<sendq, enqueued>>
    /\ UNCHANGED <<recvWaiting, accepted, chanClosed, acceptErrs, closeCalled, others>>

\* The goroutine of connection c, from NewBufferedConn to its first blocking
\* point after the peek: Peek(1); on error close and return; on 0x16 send the
\* BufferedConn into tlsConnChan (completing at once when the HTTPS server is
\* already waiting in Accept, parking otherwise); else call handleHTTPRedirect.
TaskClassify(c) ==
    /\ conns[c].pc = "peek"
    /\ PeekReady(conns[c], 1)
    /\ LET r == Peek(conns[c], 1)
       IN  IF r.err
           THEN /\ conns' = [conns EXCEPT ![c] = OnPeekError(r.conn)]
                /\ UNCHANGED <<sendq, recvWaiting, accepted, enqueued>>
           ELSE IF Route(FirstByte(r.data[1])) = "secure"
           THEN IF recvWaiting
                THEN /\ conns' = [conns EXCEPT ![c] = Delivered(SendDone(Sending(r.conn)))]
                     /\ recvWaiting' = FALSE
                     /\ accepted' = Append(accepted, c)
                     /\ enqueued' = Append(enqueued, c)
                     /\ UNCHANGED sendq
                ELSE /\ conns' = [conns EXCEPT ![c] = Sending(r.conn)]
                     /\ sendq' = Append(sendq, c)
                     /\ enqueued' = Append(enqueued, c)
                     /\ UNCHANGED <<recvWaiting, accepted>>
           ELSE /\ conns' = [conns EXCEPT ![c] = CallRedirect(r.conn)]
                /\ UNCHANGED <<sendq, recvWaiting, accepted, enqueued>>
    /\ UNCHANGED <<chanClosed, acceptErrs, closeCalled, others>>

\* handleHTTPRedirect, one Read of http.ReadRequest's reader (len(p) = n)
\* through BufferedConn.Read, and everything that follows it without
\* blocking: still incomplete, keep reading; error or EOF, return; parsed,
\* write the 301 (the write succeeds or fails) and return.
RedirectRead(c, n) ==
    /\ conns[c].pc = "redirect"
    /\ ReadReady(conns[c])
    /\ LET r   == Read(conns[c], n)
           req == ReadRequest(r.conn.got)
       IN  IF r.eof \/ req.st = "bad"
           THEN conns' = [conns EXCEPT ![c] = RedirectFail(r.conn)]
           ELSE IF req.st = "ok"
           THEN \E writeOk \in BOOLEAN :
                    conns' = [conns EXCEPT ![c] = RedirectRespond(r.conn, req, writeOk)]
           ELSE conns' = [conns EXCEPT ![c] = r.conn]
    /\ UNCHANGED <<sendq, recvWaiting, chanClosed, accepted, acceptErrs, closeCalled,
                 enqueued, others>>

\* ------------------------------------------------------------ ChanListener

\* An Accept that takes the value off the channel and loses it, as a receive
\* whose result is discarded.
ListenerAcceptDrop ==
    /\ mainPc = "https"
    /\ ~recvWaiting
    /\ IF chanClosed
       THEN /\ acceptErrs < MaxAcceptErrs
            /\ acceptErrs' = acceptErrs + 1
            /\ UNCHANGED <<conns, sendq, recvWaiting, accepted>>
       ELSE IF sendq # <<>>
       THEN /\ conns' = [conns EXCEPT ![Head(sendq)] = SendDone(@)]
            /\ sendq' = Tail(sendq)
            /\ UNCHANGED <<recvWaiting, accepted, acceptErrs>>
       ELSE /\ recvWaiting' = TRUE
            /\ UNCHANGED <<conns, sendq, accepted, acceptErrs>>
    /\ UNCHANGED <<chanClosed, closeCalled, enqueued, others>>

\* An Accept served from the newest parked sender, as a stack would be.
ListenerAcceptLIFO ==
    /\ mainPc = "https"
    /\ ~recvWaiting
    /\ IF chanClosed
       THEN /\ acceptErrs < MaxAcceptErrs
            /\ acceptErrs' = acceptErrs + 1
            /\ UNCHANGED <<conns, sendq, recvWaiting, accepted>>
       ELSE IF sendq # <<>>
       THEN /\ conns' = [conns EXCEPT ![sendq[Len(sendq)]] = Delivered(SendDone(@))]
            /\ sendq' = SubSeq(sendq, 1, Len(sendq) - 1)
            /\ accepted' = Append(accepted, sendq[Len(sendq)])
            /\ UNCHANGED <<recvWaiting, acceptErrs>>
       ELSE /\ recvWaiting' = TRUE
            /\ UNCHANGED <<conns, sendq, accepted, acceptErrs>>
    /\ UNCHANGED <<chanClosed, closeCalled, enqueued, others>>

\* An Accept that gives up instead of waiting: with nobody sending it returns
\* the "listener closed" error, as a receive in a select with a default would.
ListenerAcceptNoBlock ==
    /\ mainPc = "https"
    /\ ~recvWaiting
    /\ IF chanClosed \/ sendq = <<>>
       THEN /\ acceptErrs < MaxAcceptErrs
            /\ acceptErrs' = acceptErrs + 1
            /\ UNCHANGED <<conns, sendq, recvWaiting, accepted>>
       ELSE /\ conns' = [conns EXCEPT ![Head(sendq)] = Delivered(SendDone(@))]
            /\ sendq' = Tail(sendq)
            /\ accepted' = Append(accepted, Head(sendq))
            /\ UNCHANGED <<recvWaiting, acceptErrs>>
    /\ UNCHANGED <<chanClosed, closeCalled, enqueued, others>>

\* ChanListener.Accept, called by the HTTPS server's accept loop:
\* c, ok := <-l.ConnChan.  A closed channel gives the "listener closed" error;
\* a parked sender is received from, first come first served; with no sender
\* the caller parks.
ListenerAccept ==
    /\ mainPc = "https"
    /\ ~recvWaiting
    /\ IF chanClosed
       THEN /\ acceptErrs < MaxAcceptErrs
            /\ acceptErrs' = acceptErrs + 1
            /\ UNCHANGED <<conns, sendq, recvWaiting, accepted>>
       ELSE IF sendq # <<>>
       THEN /\ conns' = [conns EXCEPT ![Head(sendq)] = Delivered(SendDone(@))]
            /\ sendq' = Tail(sendq)
            /\ accepted' = Append(accepted, Head(sendq))
            /\ UNCHANGED <<recvWaiting, acceptErrs>>
       ELSE /\ recvWaiting' = TRUE
            /\ UNCHANGED <<conns, sendq, accepted, acceptErrs>>
    /\ UNCHANGED <<chanClosed, closeCalled, enqueued, others>>

\* A Close that closes the channel.
ListenerCloseChan ==
    /\ mainPc = "https"
    /\ ~closeCalled
    /\ closeCalled' = TRUE
    /\ chanClosed' = TRUE
    /\ recvWaiting' = FALSE
    /\ acceptErrs' = IF recvWaiting THEN acceptErrs + 1 ELSE acceptErrs
    /\ UNCHANGED <<conns, sendq, accepted, enqueued, others>>

\* ChanListener.Close: return nil.
ListenerClose ==
    /\ mainPc = "https"
    /\ ~closeCalled
    /\ closeCalled' = TRUE
    /\ UNCHANGED <<conns, sendq, recvWaiting, chanClosed, accepted, acceptErrs,
                   enqueued, others>>

\* close(ConnChan) by whoever holds the channel, which is what can make
\* `c, ok := <-l.ConnChan` give ok = false.  func main never does it.  A send
\* on a closed channel panics, so the channel is closed only at the end, when
\* the accept loop starts no more goroutines and every connection has been
\* closed.  An Accept parked in the receive wakes up with ok = false.
ChanClose ==
    /\ mainPc = "https"
    /\ ~chanClosed
    /\ Len(conns) = MaxConns
    /\ \A c \in ConnIds : conns[c].pc = "done" /\ conns[c].closedBy # <<>>
    /\ chanClosed' = TRUE
    /\ recvWaiting' = FALSE
    /\ acceptErrs' = IF recvWaiting THEN acceptErrs + 1 ELSE acceptErrs
    /\ UNCHANGED <<conns, sendq, accepted, closeCalled, enqueued, others>>

\* ------------------------------------------------------------ HTTPS server

\* The HTTPS server reads from a connection it accepted (the TLS handshake
\* and what follows), through BufferedConn.Read with len(p) = n.
EngineRead(c, n) ==
    /\ conns[c].eng \in {"handshake", "serving"}
    /\ ReadReady(conns[c])
    /\ LET r == Read(conns[c], n)
       IN  /\ r.data # <<>> \/ conns[c].eng = "handshake"
           /\ conns' = [conns EXCEPT ![c] =
                  [r.conn EXCEPT !.eng = "serving",
                                 !.path = IF conns[c].eng = "handshake"
                                          THEN Append(r.conn.path, "handshake")
                                          ELSE r.conn.path]]
    /\ UNCHANGED <<sendq, recvWaiting, chanClosed, accepted, acceptErrs, closeCalled,
                 enqueued, others>>

\* The HTTPS server is done with a connection and closes it.
EngineClose(c) ==
    /\ conns[c].eng = "serving"
    /\ conns' = [conns EXCEPT ![c] = Close([@ EXCEPT !.eng = "closed"], "engine")]
    /\ UNCHANGED <<sendq, recvWaiting, chanClosed, accepted, acceptErrs, closeCalled,
                 enqueued, others>>

\* ----------------------------------------------------------- specifications

Client == \E c \in ConnIds : ClientSend(c) \/ ClientClose(c)

Classify == \E c \in ConnIds : TaskClassify(c)

Redirect == \E c \in ConnIds : \E n \in 1..MaxRead : RedirectRead(c, n)

Engine == \E c \in ConnIds : (\E n \in 1..MaxRead : EngineRead(c, n)) \/ EngineClose(c)

\* The whole multiplexer: up to MaxConns connections side by side.
AcceptLoop == AcceptConn(MaxConns, Scripts)

Next ==
    \/ MainStart
    \/ AcceptLoop
    \/ Client
    \/ Classify
    \/ Redirect
    \/ ListenerAccept
    \/ ListenerClose
    \/ Engine

Spec == Init /\ [][Next]_vars

\* The ChanListener with a channel that its holder may close.
NextListener ==
    \/ Next
    \/ ChanClose

SpecListener == Init /\ [][NextListener]_vars

\* The multiplexer under the Go scheduler: a goroutine that can run does run.
\* That holds for each connection's goroutine (the peek and the routing, then
\* handleHTTPRedirect's reads), for the HTTPS server's accept loop, which calls
\* Accept again after every connection it gets, and for the HTTPS server's
\* goroutine of each connection.  Nothing is assumed of the peers.
Fairness ==
    /\ WF_vars(ListenerAccept)
    /\ \A c \in 1..MaxConns :
           /\ WF_vars(c \in ConnIds /\ TaskClassify(c))
           /\ WF_vars(c \in ConnIds /\ \E n \in 1..MaxRead : RedirectRead(c, n))
           /\ WF_vars(c \in ConnIds /\ \E n \in 1..MaxRead : EngineRead(c, n))
           /\ WF_vars(c \in ConnIds /\ EngineClose(c))

SpecFair == Spec /\ Fairness

\* One connection on its own, with every kind of client.
AcceptFirst == AcceptConn(1, AllScripts)

NextConn ==
    \/ MainStart
    \/ AcceptFirst
    \/ Client
    \/ Classify
    \/ Redirect
    \/ ListenerAccept
    \/ ListenerClose
    \/ Engine

SpecConn == Init /\ [][NextConn]_vars

\* ChanListener.Addr: return l.AddrVal.  The HTTPS server or anyone holding
\* the listener may call it at any time; what it returned is kept.
ListenerAddr ==
    /\ mainPc = "https"
    /\ addrSeen' = addrSeen \cup {addrVal}
    /\ UNCHANGED <<conns, sendq, recvWaiting, chanClosed, accepted, acceptErrs,
                   closeCalled, enqueued, lastPeek, flags, mainPc, bound, addrVars,
                   loopLog, appVars>>

\* One connection, and Addr called between the other steps.
NextAddr ==
    \/ NextConn
    \/ ListenerAddr

SpecAddr == Init /\ [][NextAddr]_vars

\* ----------------------------------------------------------- plain HTTP mode

\* A connection accepted by the server r.Run(addr) starts: no goroutine of
\* main, no BufferedConn; the server serves the router on the net.Conn itself.
PlainConn(script) ==
    [NewConn(script) EXCEPT !.pc = "none", !.owner = "engine", !.eng = "plain",
                            !.path = <<"serve">>]

\* r.Run(addr): the server's own accept loop returns a connection.
PlainAccept(limit, scripts) ==
    /\ mainPc = "http"
    /\ Len(conns) < limit
    /\ \E sc \in scripts : conns' = Append(conns, PlainConn(sc))
    /\ UNCHANGED <<sendq, recvWaiting, chanClosed, accepted, acceptErrs, closeCalled,
                   enqueued, others>>

\* The server reads the request from the socket, len(p) = n.
PlainRead(c, n) ==
    /\ conns[c].eng = "plain"
    /\ conns[c].wire # <<>> \/ conns[c].peerClosed
    /\ LET k == Min(n, Len(conns[c].wire))
       IN  /\ k > 0
           /\ conns' = [conns EXCEPT ![c].wire = Drop(@, k),
                                     ![c].got  = @ \o Take(conns[c].wire, k)]
    /\ UNCHANGED <<sendq, recvWaiting, chanClosed, accepted, acceptErrs, closeCalled,
                   enqueued, others>>

\* The server is done with the connection and closes it.
PlainClose(c) ==
    /\ conns[c].eng = "plain"
    /\ conns' = [conns EXCEPT ![c] = Close([@ EXCEPT !.eng = "closed"], "engine")]
    /\ UNCHANGED <<sendq, recvWaiting, chanClosed, accepted, acceptErrs, closeCalled,
                   enqueued, others>>

PlainServe ==
    \/ PlainAccept(1, AllScripts)
    \/ \E c \in ConnIds : (\E n \in 1..MaxRead : PlainRead(c, n)) \/ PlainClose(c)

\* func main in either mode, one connection.
NextModes ==
    \/ NextConn
    \/ PlainServe

SpecModes == Init /\ [][NextModes]_vars

\* ------------------------------------------------------------------ Storage

\* IDs and contents of the todos the handlers pass in.
TodoIds  == {"a", "b"}
Contents == {"x", "y"}

\* The values of a Go int at the model's width, and int arithmetic: a result
\* out of range wraps round.
MaxInt == 2^(IntBits - 1) - 1
MinInt == 0 - 2^(IntBits - 1)
WrapInt(x) == ((x - MinInt) % 2^IntBits) + MinInt

\* Times: time.Time{} (IsZero), the time.Now() of the call at hand, and a
\* time that came with the request.
Times == {"zero", "now", "t0"}

\* A Todo: ID, Content, Completed, Order, CreatedAt, CompletedAt.
TodoWith(id, content, order, completed, completedAt) ==
    [ id |-> id, content |-> content, completed |-> completed, order |-> order,
      createdAt |-> "zero", completedAt |-> completedAt ]

\* A Todo as a client posts a new one: not completed, no times.
TodoOf(id, content, order) == TodoWith(id, content, order, FALSE, "zero")

\* maxOrder of Storage.Add: the largest Order stored, and at least 0.
MaxOrder(ts) ==
    LET S == {ts[i].order : i \in DOMAIN ts} \cup {0}
    IN  CHOOSE m \in S : \A x \in S : x <= m

\* Storage.Add, the part under the lock: a zero CreatedAt becomes time.Now();
\* an Order of 0 becomes maxOrder + 1 (int addition); the todo is appended.
StorageAdd(ts, todo) ==
    LET t1 == IF todo.createdAt = "zero" THEN [todo EXCEPT !.createdAt = "now"] ELSE todo
    IN  Append(ts, IF t1.order = 0
                   THEN [t1 EXCEPT !.order = WrapInt(MaxOrder(ts) + 1)]
                   ELSE t1)

\* What Update stores for entry t when given todo u: u, with t's CreatedAt
\* if u has none, and CompletedAt set to now (just completed), to zero (not
\* completed) or kept from t (completed before, none given).
Updated(t, u) ==
    LET u1 == IF u.createdAt = "zero" THEN [u EXCEPT !.createdAt = t.createdAt] ELSE u
    IN  IF u1.completed /\ ~t.completed THEN [u1 EXCEPT !.completedAt = "now"]
        ELSE IF ~u1.completed THEN [u1 EXCEPT !.completedAt = "zero"]
        ELSE IF u1.completedAt = "zero" THEN [u1 EXCEPT !.completedAt = t.completedAt]
        ELSE u1

\* An Update that adds the todo when no entry has its ID.
StorageUpsert(ts, todo) ==
    IF \E i \in DOMAIN ts : ts[i].id = todo.id
    THEN LET i == CHOOSE k \in DOMAIN ts :
                      ts[k].id = todo.id /\ \A j \in 1..(k - 1) : ts[j].id # todo.id
         IN  [ts EXCEPT ![i] = Updated(ts[i], todo)]
    ELSE Append(ts, todo)

\* Storage.Update, the part under the lock: the first entry with the ID is
\* replaced (the loop breaks there); no entry with the ID, no change.
StorageUpdate(ts, todo) ==
    IF \E i \in DOMAIN ts : ts[i].id = todo.id
    THEN LET i == CHOOSE k \in DOMAIN ts :
                      ts[k].id = todo.id /\ \A j \in 1..(k - 1) : ts[j].id # todo.id
         IN  [ts EXCEPT ![i] = Updated(ts[i], todo)]
    ELSE ts

\* Storage.Delete, the part under the lock: the entries with another ID, in order.
StorageDelete(ts, id) == SelectSeq(ts, LAMBDA t : t.id # id)

\* Storage.Reorder, the part under the lock: todoMap keeps for each ID the
\* index of its last entry; each id of the list that is stored gives that
\* entry its position in the list, counted from 0, a later position winning.
StorageReorder(ts, ids) ==
    [i \in DOMAIN ts |->
        LET isMapped == \A j \in DOMAIN ts : ts[j].id = ts[i].id => j <= i
            P == {k \in DOMAIN ids : ids[k] = ts[i].id}
        IN  IF isMapped /\ P # {}
            THEN [ts[i] EXCEPT !.order = (CHOOSE k \in P : \A x \in P : x <= k) - 1]
            ELSE ts[i]]

\* The calls the handlers make on a Storage.
StorageOps ==
    [op : {"Add"}, todo : {TodoOf(id, "x", o) : id \in TodoIds, o \in {0, 1}}]
    \cup [op : {"Update"}, todo : {TodoOf(id, "y", o) : id \in TodoIds, o \in {0, 1}}]
    \cup [op : {"Delete"}, id : TodoIds]
    \cup [op : {"Reorder"}, ids : {<<"a">>, <<"b", "a">>, <<"a", "b">>}]

\* The list after the locked part of a call.
Mutated(ts, call) ==
    CASE call.op = "Add"     -> StorageAdd(ts, call.todo)
      [] call.op = "Update"  -> StorageUpdate(ts, call.todo)
      [] call.op = "Delete"  -> StorageDelete(ts, call.id)
      [] call.op = "Reorder" -> StorageReorder(ts, call.ids)

\* json.MarshalIndent(s.Todos): one JSON object per todo, keys as the struct
\* tags give them, in the order of the list; and the reading back of such a
\* file.
Marshal(ts) ==
    [i \in DOMAIN ts |->
        << "id", ts[i].id, "content", ts[i].content, "completed", ts[i].completed,
           "order", ts[i].order, "created_at", ts[i].createdAt,
           "completed_at", ts[i].completedAt >>]

Unmarshal(data) ==
    [i \in DOMAIN data |->
        [ id |-> data[i][2], content |-> data[i][4], completed |-> data[i][6],
          order |-> data[i][8], createdAt |-> data[i][10], completedAt |-> data[i][12] ]]

\* Storage.Load: no file, the empty list; else the list in the file.
Load(f) == IF f.exists THEN Unmarshal(f.data) ELSE <<>>

\* Save's s.mu.Lock() left out: the list is marshalled and written without
\* holding the mutex.
SaveLockSkipped(p) == mu

\* s.mu.Lock() in Save by caller p: the holder afterwards.
SaveLock(p) == p

\* Add, Update, Delete or Reorder called by p, up to its s.mu.Unlock(): the
\* list is changed under the mutex.
StorageCall(p, call) ==
    /\ sproc[p].pc = "idle"
    /\ mu = 0
    /\ calls < MaxCalls
    /\ call.op = "Add" => Len(todos) < MaxTodos
    /\ todos' = Mutated(todos, call)
    /\ sproc' = [sproc EXCEPT ![p] = [pc |-> "save", op |-> call.op, data |-> <<>>]]
    /\ calls' = calls + 1
    /\ UNCHANGED <<file, mu, wfail, lastOp, authVars, sessionVars, muxVars>>

\* Save called by p: s.mu.Lock(), json.MarshalIndent(s.Todos).
SaveBegin(p) ==
    /\ sproc[p].pc = "save"
    /\ mu = 0
    /\ mu' = SaveLock(p)
    /\ sproc' = [sproc EXCEPT ![p].pc = "write", ![p].data = Marshal(todos)]
    /\ UNCHANGED <<todos, file, calls, wfail, lastOp, authVars, sessionVars, muxVars>>

\* Save, the rest: os.WriteFile, which replaces the file's content or fails;
\* the deferred s.mu.Unlock(); the call returns.
SaveWrite(p, writeOk) ==
    /\ sproc[p].pc = "write"
    /\ file' = IF writeOk THEN [exists |-> TRUE, data |-> sproc[p].data] ELSE file
    /\ wfail' = (wfail \/ ~writeOk)
    /\ mu' = IF mu = p THEN 0 ELSE mu
    /\ sproc' = [sproc EXCEPT ![p] = [pc |-> "idle", op |-> "none", data |-> <<>>]]
    /\ UNCHANGED <<todos, calls, lastOp, authVars, sessionVars, muxVars>>

StorageCalls == \E p \in 1..MaxProcs : \E call \in StorageOps : StorageCall(p, call)

StorageSaves ==
    \E p \in 1..MaxProcs : SaveBegin(p) \/ \E writeOk \in BOOLEAN : SaveWrite(p, writeOk)

\* The process as the application's managers see it: no flags given.
AppInit == Init /\ flags = [https |-> FALSE, cert |-> "", key |-> ""]

\* One Storage and the goroutines of the handlers calling into it.
NextStorage ==
    \/ StorageCalls
    \/ StorageSaves

SpecStorage == AppInit /\ [][NextStorage]_vars

\* ---- The Storage with one caller at a time ----

\* Storage.GetAll: a copy of the list, sorted by sort.Slice on Order. The
\* sort is not stable: any arrangement in which no todo comes after one of
\* greater Order can be the result.
GetAll(ts) ==
    LET n == Len(ts)
        Perms == {f \in [1..n -> 1..n] : \A i, j \in 1..n : i # j => f[i] # f[j]}
        Sorted(f) == \A i \in 1..(n - 1) : ~(ts[f[i + 1]].order < ts[f[i]].order)
    IN  {[i \in 1..n |-> ts[f[i]]] : f \in {g \in Perms : Sorted(g)}}

\* The calls made on the Storage. Order, like the ID, comes decoded from the
\* request body: any int, the largest one included. Reorder's list can name
\* IDs that are not stored.
Orders == {0, 1, -1, MaxInt}

TodoCalls ==
    [op : {"Add"}, todo : {TodoOf(id, "x", o) : id \in TodoIds, o \in Orders}]
    \cup [op : {"Update"},
          todo : {TodoWith(id, "y", o, c, ca) :
                     id \in TodoIds, o \in {0, 2}, c \in BOOLEAN, ca \in {"zero", "t0"}}]
    \cup [op : {"Delete"}, id : TodoIds]
    \cup [op : {"Reorder"}, ids : {<<"a">>, <<"b", "a">>, <<"zz", "b">>, <<"a", "zz", "b">>}]

\* One call of Add, Update, Delete or Reorder from start to return: the
\* change under the mutex, then Save, whose error is the call's.
TodoCall(call, writeOk) ==
    /\ mu = 0
    /\ \A p \in 1..MaxProcs : sproc[p].pc = "idle"
    /\ calls < MaxCalls
    /\ call.op = "Add" => Len(todos) < MaxTodos
    /\ todos' = Mutated(todos, call)
    /\ file' = IF writeOk THEN [exists |-> TRUE, data |-> Marshal(todos')] ELSE file
    /\ wfail' = (wfail \/ ~writeOk)
    /\ calls' = calls + 1
    /\ lastOp' = [ op |-> call.op, call |-> call, before |-> todos,
                   err |-> ~writeOk, got |-> FALSE, result |-> <<>> ]
    /\ UNCHANGED <<mu, sproc, authVars, sessionVars, muxVars>>

\* One call of GetAll, and what it returned.
GetAllCall ==
    /\ mu = 0
    /\ ~lastOp.got
    /\ \E r \in GetAll(todos) : lastOp' = [lastOp EXCEPT !.got = TRUE, !.result = r]
    /\ UNCHANGED <<todos, file, mu, sproc, calls, wfail, authVars, sessionVars, muxVars>>

TodoCallsStep == \E call \in TodoCalls : \E writeOk \in BOOLEAN : TodoCall(call, writeOk)

NextTodos ==
    \/ TodoCallsStep
    \/ GetAllCall

SpecTodos == AppInit /\ [][NextTodos]_vars

\* -------------------------------------------------------------- UserManager

Usernames == {"alice", "bob"}
Passwords == {"p1", "p2"}

\* bcrypt.GenerateFromPassword: the hash stored for a password.
Hash(pw) == "bcrypt(" \o pw \o ")"

\* um.Users[username] = User{...}
PutUser(m, u, h) == [x \in DOMAIN m \cup {u} |-> IF x = u THEN h ELSE m[x]]

\* Register(username, password) called by p: it is about to take um.mu.
RegisterCall(p, u, pw) ==
    /\ rproc[p].pc = "idle"
    /\ calls < MaxCalls
    /\ rproc' = [rproc EXCEPT ![p] = [pc |-> "lock", username |-> u, password |-> pw]]
    /\ calls' = calls + 1
    /\ UNCHANGED <<users, ufile, regLog, storageVars, sessionVars, muxVars>>

\* Register from um.mu.Lock() to its return, all of it under the mutex: a
\* username that exists gives the error; otherwise the user is put in the map
\* and um.save() writes the file, whose error, if any, is what Register
\* returns.  The entry logged says what the call found and what it left.
RegisterRun(p, writeOk) ==
    /\ rproc[p].pc = "lock"
    /\ LET u       == rproc[p].username
           existed == u \in DOMAIN users
           after   == IF existed THEN users ELSE PutUser(users, u, Hash(rproc[p].password))
           err     == IF existed THEN "user already exists"
                      ELSE IF writeOk THEN "nil" ELSE "write failed"
       IN  /\ users' = after
           /\ ufile' = IF ~existed /\ writeOk THEN after ELSE ufile
           /\ regLog' = Append(regLog,
                  [ username   |-> u,
                    password   |-> rproc[p].password,
                    existed    |-> existed,
                    concurrent |-> \E q \in 1..MaxProcs :
                                       q # p /\ rproc[q].pc = "lock" /\ rproc[q].username = u,
                    unchanged  |-> after = users,
                    err        |-> err ])
    /\ rproc' = [rproc EXCEPT ![p] = [pc |-> "idle", username |-> "", password |-> ""]]
    /\ UNCHANGED <<calls, storageVars, sessionVars, muxVars>>

RegisterCalls ==
    \E p \in 1..MaxProcs : \E u \in Usernames : \E pw \in Passwords : RegisterCall(p, u, pw)

RegisterRuns == \E p \in 1..MaxProcs : \E writeOk \in BOOLEAN : RegisterRun(p, writeOk)

\* One UserManager and the goroutines of the register handler.
NextUsers ==
    \/ RegisterCalls
    \/ RegisterRuns

SpecUsers == AppInit /\ [][NextUsers]_vars

\* ----------------------------------------------------------- SessionManager

\* Tokens a caller may present: the ones issued, and others (0 is a token
\* that is never issued).
TokenInputs == 0..MaxTokens

\* uuid.New().String(): a token that was not issued before.
NewToken == Len(issued) + 1

\* sm.Sessions[token] = username
PutSession(m, t, u) == [x \in DOMAIN m \cup {t} |-> IF x = t THEN u ELSE m[x]]

\* A delete that drops every session of the token's user.
WithoutUser(m, t) ==
    IF t \in DOMAIN m
    THEN [x \in {y \in DOMAIN m : m[y] # m[t]} |-> m[x]]
    ELSE m

\* delete(sm.Sessions, token)
Without(m, t) == [x \in DOMAIN m \ {t} |-> m[x]]

\* GetUsername(token): username, exists := sm.Sessions[token].
GetUsername(t) ==
    IF t \in DOMAIN sessions THEN <<sessions[t], TRUE>> ELSE <<"", FALSE>>

\* CreateSession(username), under sm.mu.
CreateSession(u) ==
    /\ Len(issued) < MaxTokens
    /\ sessions' = PutSession(sessions, NewToken, u)
    /\ issued' = Append(issued, u)
    /\ lastSess' = <<"CreateSession", u, NewToken>>
    /\ UNCHANGED <<revoked, calls, storageVars, authVars, muxVars>>

\* GetUsername(token), under sm.mu.RLock.
GetUsernameCall(t) ==
    /\ lastSess' = <<"GetUsername", t, GetUsername(t)>>
    /\ UNCHANGED <<sessions, issued, revoked, calls, storageVars, authVars, muxVars>>

\* DeleteSession(token), under sm.mu.
DeleteSession(t) ==
    /\ sessions' = Without(sessions, t)
    /\ revoked' = IF t \in 1..Len(issued) THEN revoked \cup {t} ELSE revoked
    /\ lastSess' = <<"DeleteSession", t>>
    /\ UNCHANGED <<issued, calls, storageVars, authVars, muxVars>>

\* One SessionManager and the handlers calling it.
NextSessions ==
    \/ \E u \in Usernames : CreateSession(u)
    \/ \E t \in TokenInputs : GetUsernameCall(t)
    \/ \E t \in TokenInputs : DeleteSession(t)

SpecSessions == AppInit /\ [][NextSessions]_vars

\* One connection and an l.Accept that may fail.
AcceptFails == \E kind \in AcceptErrorKinds : AcceptError(kind)

NextLoop ==
    \/ NextConn
    \/ AcceptFails

SpecLoop == Init /\ [][NextLoop]_vars

\* A caller of one BufferedConn that peeks again, any number of bytes the
\* buffer can hold, as long as nothing has been read; each call is recorded.
PeekAgain(c, n) ==
    /\ conns[c].pc = "peek"
    /\ conns[c].got = <<>>
    /\ Len(lastPeek) < MaxPeeks
    /\ PeekReady(conns[c], n)
    /\ LET r == Peek(conns[c], n)
       IN  /\ conns' = [conns EXCEPT ![c] = r.conn]
           /\ lastPeek' = Append(lastPeek, [n |-> n, data |-> r.data, err |-> r.err])
    /\ UNCHANGED <<sendq, recvWaiting, chanClosed, accepted, acceptErrs, closeCalled,
                   enqueued, flags, mainPc, bound, addrVars, extra>>

\* The same caller reads, len(p) = n, through BufferedConn.Read.
ReadAfterPeek(c, n) ==
    /\ conns[c].pc = "peek"
    /\ ReadReady(conns[c])
    /\ Read(conns[c], n).data # <<>>
    /\ conns' = [conns EXCEPT ![c] = Read(conns[c], n).conn]
    /\ UNCHANGED <<sendq, recvWaiting, chanClosed, accepted, acceptErrs, closeCalled,
                   enqueued, others>>

Peeking == \E c \in ConnIds : \E n \in 1..BufSize : PeekAgain(c, n)

Reading == \E c \in ConnIds : \E n \in 1..MaxRead : ReadAfterPeek(c, n)

\* One BufferedConn and a caller that peeks and reads as it likes.
NextPeek ==
    \/ MainStart
    \/ AcceptFirst
    \/ Client
    \/ Peeking
    \/ Reading

SpecPeek == Init /\ [][NextPeek]_vars

\* =================================================================== claims

InPath(conn, e) == \E i \in DOMAIN conn.path : conn.path[i] = e

IsPrefix(s, t) == Len(s) <= Len(t) /\ s = Take(t, Len(s))

\* The peek of connection c returned a byte: the goroutine is past the peek
\* and did not take the error branch.
Classified(conn) == conn.pc # "peek" /\ ~InPath(conn, "peekfail")

\* ---------------------------------------------------------------------- C1
\* C1: a classified connection whose first byte is 0x16 has been sent to the
\* ChanListener's channel and handleHTTPRedirect has not been called on it; a
\* classified connection with any other first byte has had handleHTTPRedirect
\* called on it and has not been sent to the channel.
C1_CorrectBranching ==
    \A c \in ConnIds :
        LET conn == conns[c]
        IN  Classified(conn) =>
                IF FirstByte(conn.script[1]) = 22
                THEN InPath(conn, "enqueue") /\ ~InPath(conn, "redirect")
                ELSE InPath(conn, "redirect") /\ ~InPath(conn, "enqueue")

\* One connection that began with 0x16 is on the secure path while another
\* that began with 'G' is with the redirect responder.
C1_Witness ==
    \E c, d \in ConnIds :
        /\ FirstByte(conns[c].script[1]) = 22 /\ InPath(conns[c], "enqueue")
        /\ FirstByte(conns[d].script[1]) = 71 /\ InPath(conns[d], "redirect")

\* ---------------------------------------------------------------------- C2
\* C2: on every open connection the bytes handed to the downstream consumer,
\* then the bytes buffered in the BufferedConn, then the bytes still on the
\* socket are together exactly what the client has sent, in order; and what
\* the consumer has obtained is at all times a prefix of what the client sent,
\* starting with the peeked byte.
C2_NonDestructivePeek ==
    \A c \in ConnIds :
        LET conn == conns[c]
        IN  /\ IsPrefix(conn.got, Take(conn.script, conn.sent))
            /\ conn.closedBy = <<>> =>
                   conn.got \o conn.buf \o conn.wire = Take(conn.script, conn.sent)

\* The HTTPS server has read the whole ClientHello, the peeked 0x16 first.
C2_Witness ==
    \E c \in ConnIds :
        /\ conns[c].owner = "engine"
        /\ conns[c].got = TLSScript
        /\ conns[c].closedBy = <<>>

\* ---------------------------------------------------------------------- C3
\* The ways a connection goes:
\* redirect-and-close, with or without a response written;
RedirectPaths ==
    { <<"redirect", "close">>,
      <<"redirect", "respond", "close">>,
      <<"redirect", "writefail", "close">> }
\* enqueue, then the HTTPS server's handshake and serving, then close;
SecurePaths == { <<"enqueue", "dequeue", "handshake", "close">> }
\* and the peek that failed.
PeekFailPaths == { <<"peekfail", "close">> }

\* C3 as claimed: a connection that has been closed went down one of the two
\* paths, redirect-and-close or enqueue-handshake-serve-close, and no other.
C3_TwoPathsOnly ==
    \A c \in ConnIds :
        conns[c].closedBy # <<>> => conns[c].path \in RedirectPaths \cup SecurePaths

\* C3, amended: a connection whose peek returned a byte goes down exactly one
\* of the two paths, no step of it skipped or taken twice; a connection whose
\* peek failed is closed by its goroutine and goes down neither.  At every
\* moment what has been done with a connection is the beginning of one of
\* these paths, and a closed connection has gone down a whole one.
C3_OnePathEach ==
    \A c \in ConnIds :
        LET conn == conns[c]
            ways == RedirectPaths \cup SecurePaths \cup PeekFailPaths
        IN  /\ \E w \in ways : IsPrefix(conn.path, w)
            /\ conn.closedBy # <<>> => conn.path \in ways
            /\ Classified(conn) /\ conn.closedBy # <<>> =>
                   conn.path \in RedirectPaths \cup SecurePaths

\* One connection has gone all the way down the secure path and another has
\* been closed after its peek failed.
C3_Witness ==
    \E c, d \in ConnIds :
        /\ conns[c].path \in SecurePaths
        /\ conns[d].path \in PeekFailPaths

\* ---------------------------------------------------------------------- C4
\* C4: a connection is held by one of goroutine, redirect responder or HTTPS
\* server at a time, never by both of the last two: it never has both been
\* sent to the channel and passed to handleHTTPRedirect; every Close is made
\* by the holder; and once the goroutine has sent the connection into the
\* channel it neither closes it, nor writes to it, nor reads from it.
C4_ExclusiveOwnership ==
    \A c \in ConnIds :
        LET conn == conns[c]
        IN  /\ conn.owner \in {"task", "redirect", "engine"}
            /\ ~(InPath(conn, "enqueue") /\ InPath(conn, "redirect"))
            /\ (conn.owner = "engine") = (conn.eng # "none")
            /\ (conn.owner = "redirect") = InPath(conn, "redirect")
            /\ \A i \in DOMAIN conn.closedBy : conn.closedBy[i] = conn.owner
            /\ InPath(conn, "enqueue") =>
                   /\ conn.pc \in {"send", "done"}
                   /\ conn.resp = <<>>
                   /\ \A i \in DOMAIN conn.closedBy : conn.closedBy[i] # "task"
                   /\ conn.eng = "none" => conn.got = <<>>

\* The HTTPS server holds a connection the goroutine handed over, has read
\* from it and has closed it, the goroutine having returned.
C4_Witness ==
    \E c \in ConnIds :
        /\ conns[c].owner = "engine"
        /\ conns[c].pc = "done"
        /\ conns[c].got # <<>>
        /\ conns[c].closedBy = <<"engine">>

\* ---------------------------------------------------------------------- C5
\* C5: handleHTTPRedirect closes the connection exactly once however it
\* returns: while it is still reading the connection is open, and once it has
\* returned (the request did not parse, the response was written, or the
\* write failed) the connection has been closed once, by it.
C5_RedirectClosesOnce ==
    \A c \in ConnIds :
        LET conn == conns[c]
        IN  InPath(conn, "redirect") =>
                /\ conn.pc = "redirect" => conn.closedBy = <<>>
                /\ conn.pc = "done" => conn.closedBy = <<"redirect">>
                /\ conn.pc \in {"redirect", "done"}

\* handleHTTPRedirect has returned after a failed write of the response.
C5_Witness ==
    \E c \in ConnIds :
        /\ InPath(conns[c], "writefail")
        /\ conns[c].pc = "done"
        /\ conns[c].closedBy = <<"redirect">>

\* ---------------------------------------------------------------------- C6
\* C6 as claimed: whenever handleHTTPRedirect has returned and the request it
\* read did not parse (malformed, cut short by the peer closing, or without a
\* Host header), it has written no byte of response and closed the connection.
C6_NoResponseOnParseFailure ==
    \A c \in ConnIds :
        LET conn == conns[c]
            req  == ReadRequest(conn.got)
        IN  InPath(conn, "redirect") /\ conn.pc = "done"
              /\ (req.st # "ok" \/ req.Host = "") =>
                conn.resp = <<>> /\ conn.closedBy = <<"redirect">>

\* ---------------------------------------------------------------------- C7
\* C7 as claimed: every response handleHTTPRedirect writes has status 301,
\* Connection: close, and a Location that is "https://", the request's host
\* and the request-target exactly as the client sent it.
C7_LocationVerbatim ==
    \A c \in ConnIds :
        LET conn == conns[c]
            req  == ReadRequest(conn.got)
        IN  \A i \in DOMAIN conn.resp :
                /\ conn.resp[i].status = 301
                /\ conn.resp[i].Connection = "close"
                /\ conn.resp[i].Location = "https://" \o req.Host \o req.target

\* ---------------------------------------------------------------------- C8
\* C8: a connection whose 1-byte peek failed has been closed once, by its
\* goroutine, and nothing else has been or is being done with it: it is not
\* in the channel, was not returned by ChanListener.Accept, was not passed to
\* handleHTTPRedirect, nothing was written to it or read from it again, and
\* the goroutine has returned instead of peeking again.
C8_PeekFailureClosesAndStops ==
    \A c \in ConnIds :
        LET conn == conns[c]
        IN  InPath(conn, "peekfail") =>
                /\ conn.path = <<"peekfail", "close">>
                /\ conn.closedBy = <<"task">>
                /\ conn.pc = "done"
                /\ conn.owner = "task" /\ conn.eng = "none"
                /\ conn.resp = <<>> /\ conn.got = <<>>
                /\ \A i \in DOMAIN sendq : sendq[i] # c
                /\ \A i \in DOMAIN accepted : accepted[i] # c

\* A peer closed without sending a byte and its connection has been closed.
C8_Witness ==
    \E c \in ConnIds :
        /\ InPath(conns[c], "peekfail")
        /\ conns[c].sent = 0
        /\ conns[c].closedBy = <<"task">>

\* ---------------------------------------------------------------------- C9
\* C9 as claimed: once ChanListener.Close has been called, no Accept call is
\* left blocked on the channel, whether it began before Close or after.
C9_NoAcceptBlockedOnceClosed ==
    closeCalled => ~recvWaiting

\* --------------------------------------------------------------------- C10
\* C10 as claimed: once ChanListener.Close has been called, no goroutine that
\* classified its connection as secure is blocked in the send on the channel.
C10_NoSendBlockedOnceClosed ==
    closeCalled => sendq = <<>>

\* --------------------------------------------------------------------- C11
\* C11: ChanListener.Accept blocks exactly when the channel is open and no
\* goroutine is offering a connection, and stays blocked until one does; it
\* returns a connection only from an open channel, and then the one offered
\* (the sender parked first, or the one arriving while it waits), handed to the
\* HTTPS server with no error; it returns the "listener closed" error only when
\* the channel has been closed, and then no connection.
C11_AcceptContract ==
    /\ [](recvWaiting => sendq = <<>> /\ ~chanClosed)
    /\ [][ /\ accepted' # accepted =>
                /\ ~chanClosed
                /\ acceptErrs' = acceptErrs
                /\ \E c \in 1..Len(conns') :
                       /\ accepted' = Append(accepted, c)
                       /\ IF sendq # <<>>
                          THEN c = Head(sendq) /\ ~recvWaiting
                          ELSE recvWaiting /\ conns[c].pc = "peek"
                       /\ InPath(conns'[c], "enqueue")
                       /\ conns'[c].owner = "engine"
           /\ acceptErrs' # acceptErrs =>
                chanClosed' /\ accepted' = accepted /\ conns' = conns
           /\ ~recvWaiting /\ recvWaiting' =>
                sendq = <<>> /\ accepted' = accepted /\ acceptErrs' = acceptErrs
           /\ recvWaiting /\ ~recvWaiting' =>
                accepted' # accepted \/ chanClosed'
         ]_vars

\* Accept has returned a connection offered to it, and later, the channel
\* having been closed, the "listener closed" error.
C11_Witness ==
    /\ accepted # <<>>
    /\ conns[accepted[1]].owner = "engine"
    /\ chanClosed
    /\ acceptErrs > 0

\* --------------------------------------------------------------------- C12
Occurrences(seq, c) == Cardinality({i \in DOMAIN seq : seq[i] = c})

\* C12: no connection is returned by two Accept calls, and a connection sent
\* into tlsConnChan is never lost: it is either still held by its parked
\* sender (once, open, its goroutine in the send) or it has been returned by
\* exactly one Accept; a connection never sent is in neither place.
C12_NoDoubleReadNoDrop ==
    \A c \in ConnIds :
        /\ Occurrences(accepted, c) <= 1
        /\ IF InPath(conns[c], "enqueue")
           THEN /\ Occurrences(sendq, c) + Occurrences(accepted, c) = 1
                /\ Occurrences(sendq, c) = 1 =>
                       conns[c].pc = "send" /\ conns[c].closedBy = <<>>
                /\ Occurrences(accepted, c) = 1 => InPath(conns[c], "dequeue")
           ELSE Occurrences(sendq, c) + Occurrences(accepted, c) = 0

\* Two connections went through the channel, each returned once, the first
\* of them after waiting in the send.
C12_Witness ==
    /\ Len(accepted) = 2
    /\ accepted[1] # accepted[2]
    /\ sendq = <<>>
    /\ \A c \in {accepted[1], accepted[2]} : InPath(conns[c], "enqueue")

\* --------------------------------------------------------------------- C13
\* C13: Accept returns connections in the order their sends took effect: the
\* connections returned so far, followed by the parked senders in queue
\* order, are the sends in the order they were made.
C13_FIFO ==
    enqueued = accepted \o sendq

\* Two connections sent in the order 2, 1 (not the order of l.Accept) and
\* returned in that order.
C13_Witness ==
    /\ enqueued = <<2, 1>>
    /\ accepted = <<2, 1>>

\* --------------------------------------------------------------------- C14
\* C14: the accept loop is never held up by a connection's goroutine: while
\* the loop runs (and the bound on connections is not reached) the next
\* l.Accept can return, whatever the earlier goroutines are blocked on; and a
\* connection whose first byte has arrived, or whose peer has closed, can be
\* classified whatever the others are doing.
C14_LoopNeverBlocks ==
    /\ mainPc = "https" /\ Len(conns) < MaxConns => ENABLED AcceptLoop
    /\ \A c \in ConnIds :
           conns[c].pc = "peek" /\ PeekReady(conns[c], 1) => ENABLED TaskClassify(c)

\* Connection 1 has sent nothing and its goroutine sits in Peek; connection
\* 2, accepted after it, has been redirected and closed.
C14_Witness ==
    /\ Len(conns) >= 2
    /\ conns[1].pc = "peek" /\ conns[1].sent = 0 /\ ~conns[1].peerClosed
    /\ InPath(conns[2], "respond") /\ conns[2].closedBy = <<"redirect">>

\* --------------------------------------------------------------------- C15
\* Connection c has arrived where its first byte says it belongs: a 0x16
\* connection has been returned by Accept, once, and is the HTTPS server's;
\* any other is in handleHTTPRedirect or through it, and never in the channel.
RoutedCorrectly(c) ==
    /\ Classified(conns[c])
    /\ IF FirstByte(conns[c].script[1]) = TLSMarker
       THEN /\ Occurrences(accepted, c) = 1
            /\ conns[c].owner = "engine"
            /\ ~InPath(conns[c], "redirect")
       ELSE /\ InPath(conns[c], "redirect")
            /\ Occurrences(enqueued, c) = 0

\* What was read and written on connection c is its own: the bytes delivered
\* are the bytes its peer sent, in order; a redirect is written only on a
\* plaintext connection and is the answer to that connection's request.
NoCrossTalk(c) ==
    /\ IsPrefix(conns[c].got, Take(conns[c].script, conns[c].sent))
    /\ \A i \in DOMAIN conns[c].resp :
           /\ FirstByte(conns[c].script[1]) # TLSMarker
           /\ conns[c].resp[i] = RedirectResponse(ReadRequest(conns[c].got))

\* C15: with secure and plaintext connections side by side, goroutines
\* scheduled fairly and an HTTPS server that keeps accepting, under every
\* interleaving each connection whose first byte has arrived is classified
\* and reaches its own path (so nothing deadlocks), and no connection gets
\* another one's bytes.
C15_ConcurrencySafety ==
    /\ [](\A c \in ConnIds : NoCrossTalk(c))
    /\ \A c \in 1..MaxConns :
           (c \in ConnIds /\ conns[c].sent >= 1) ~> (c \in ConnIds /\ RoutedCorrectly(c))

\* A secure and a plaintext connection, both open at the same time, both
\* routed: the one returned by Accept, the other answered with the redirect.
C15_Witness ==
    /\ Len(conns) >= 2
    /\ \E c, e \in ConnIds :
           /\ FirstByte(conns[c].script[1]) = TLSMarker /\ RoutedCorrectly(c)
           /\ conns[c].closedBy = <<>>
           /\ FirstByte(conns[e].script[1]) # TLSMarker /\ RoutedCorrectly(e)
           /\ conns[e].resp # <<>>

\* --------------------------------------------------------------------- C16
\* Nothing of the server has begun: no socket bound, no connection accepted,
\* the HTTPS server not in Accept.
NothingStarted ==
    /\ bound = 0
    /\ conns = <<>>
    /\ ~recvWaiting /\ accepted = <<>> /\ acceptErrs = 0

\* C16: with --https false and a certificate path or a key path given, main
\* ends in the fatal configuration error, and no socket is ever bound
\* (neither net.Listen nor r.Run is reached).
C16_FatalWhenHTTPSOffWithCertOrKey ==
    mainPc # "start" /\ ~flags.https /\ (flags.cert # "" \/ flags.key # "") =>
        mainPc = "fatal_config" /\ NothingStarted

\* main has stopped on the first check, with only a certificate path given.
C16_Witness ==
    /\ mainPc = "fatal_config"
    /\ ~flags.https /\ flags.cert # "" /\ flags.key = ""
    /\ bound = 0

\* --------------------------------------------------------------------- C17
\* C17: with --https true and the certificate path or the key path empty,
\* main ends in the fatal configuration error before net.Listen and before
\* the HTTPS server's goroutine is started.
C17_FatalWhenHTTPSOnWithoutCertOrKey ==
    mainPc # "start" /\ flags.https /\ (flags.cert = "" \/ flags.key = "") =>
        mainPc = "fatal_config" /\ NothingStarted

\* main has stopped on the second check, with the key path missing.
C17_Witness ==
    /\ mainPc = "fatal_config"
    /\ flags.https /\ flags.cert # "" /\ flags.key = ""
    /\ bound = 0 /\ ~recvWaiting

\* --------------------------------------------------------------------- C18
\* Connection c has been served to completion: its goroutine has returned
\* and the HTTPS server is not in the middle of it.
Completed(c) ==
    /\ conns[c].pc = "done"
    /\ conns[c].eng \notin {"handshake", "serving"}

\* Connections accepted and not yet closed.
OpenCount == Cardinality({c \in ConnIds : conns[c].closedBy = <<>>})

\* C18: a connection served to completion has been closed, whichever way it
\* went; so when all the connections accepted have been served to
\* completion, the number of open connections is what it was before any of
\* them was accepted: none.
C18_NoLeaks ==
    /\ \A c \in ConnIds : Completed(c) => conns[c].closedBy # <<>>
    /\ (\A c \in ConnIds : Completed(c)) => OpenCount = 0

\* A secure and a plaintext connection, both served to completion and closed,
\* the plaintext one after a redirect whose write failed.
C18_Witness ==
    /\ Len(conns) >= 2
    /\ \A c \in ConnIds : Completed(c)
    /\ \E c \in ConnIds : conns[c].eng = "closed"
    /\ \E c \in ConnIds : InPath(conns[c], "writefail")
    /\ OpenCount = 0

\* --------------------------------------------------------------------- C19
\* C19 as claimed: under fair scheduling of the goroutines, every accepted
\* connection is eventually closed, whatever its peer does.
C19_AlwaysEventuallyClosed ==
    \A c \in 1..MaxConns :
        [](c \in ConnIds => <>(c \in ConnIds /\ conns[c].closedBy # <<>>))

\* --------------------------------------------------------------------- C20
\* C20: before any Read, a Peek(m) made after a successful Peek(n), m <= n,
\* succeeds and returns the first m bytes of what that Peek returned; and the
\* peeks leave the read position where it was: everything the peer has sent
\* is still to be read, in order.
C20_PeekIdempotent ==
    \A c \in ConnIds :
        conns[c].got = <<>> =>
            /\ \A i, j \in DOMAIN lastPeek :
                   i < j /\ ~lastPeek[i].err /\ lastPeek[j].n <= lastPeek[i].n =>
                       /\ ~lastPeek[j].err
                       /\ lastPeek[j].data = Take(lastPeek[i].data, lastPeek[j].n)
            /\ lastPeek # <<>> =>
                   conns[c].buf \o conns[c].wire = Take(conns[c].script, conns[c].sent)

\* A Peek(2) that succeeded, then more bytes from the peer, then a Peek(1)
\* and a Peek(2) again, nothing read yet.
C20_Witness ==
    /\ Len(lastPeek) = 3
    /\ lastPeek[1].n = 2 /\ ~lastPeek[1].err
    /\ lastPeek[2].n = 1
    /\ lastPeek[3].n = 2
    /\ conns[1].got = <<>>
    /\ conns[1].sent > 2

\* --------------------------------------------------------------------- C21
\* C21 as claimed: after a transient error of l.Accept the accept loop is
\* still looping; after a fatal or listener-closed error it has terminated.
C21_AcceptErrorPolicy ==
    \A i \in DOMAIN loopLog :
        IF loopLog[i] = "transient"
        THEN mainPc = "https"
        ELSE mainPc # "https"

\* --------------------------------------------------------------------- C22
\* The peer of connection c has sent nothing and has not closed, and the
\* goroutine of c is at its peek.
Silent(c) ==
    /\ conns[c].pc = "peek"
    /\ conns[c].sent = 0
    /\ ~conns[c].peerClosed

\* C22: Peek(1) fails when the peer closes before a byte has come, and only
\* then; while the peer neither sends nor closes, the goroutine cannot get
\* past the peek, for as long as that lasts, and the connection is not closed,
\* not sent into the channel and not redirected.
C22_PeekWithoutTimeout ==
    /\ [](\A c \in ConnIds :
            /\ Silent(c) =>
                 /\ ~ENABLED TaskClassify(c)
                 /\ conns[c].closedBy = <<>>
                 /\ conns[c].path = <<>>
                 /\ conns[c].owner = "task"
                 /\ Occurrences(enqueued, c) = 0
            /\ conns[c].pc = "peek" /\ conns[c].sent = 0 /\ conns[c].peerClosed =>
                 Peek(conns[c], 1).err /\ ENABLED TaskClassify(c)
            /\ InPath(conns[c], "peekfail") => conns[c].sent = 0)
    /\ [][\A c \in ConnIds :
            Silent(c) /\ conns'[c].sent = 0 /\ ~conns'[c].peerClosed =>
                conns'[c] = conns[c]]_vars

\* Connection 1 is held in the peek by a silent peer while connection 2,
\* whose peer closed without sending, has had its peek fail.
C22_Witness ==
    /\ Len(conns) >= 2
    /\ Silent(1)
    /\ InPath(conns[2], "peekfail")

\* --------------------------------------------------------------------- C23
\* Where e first stands in a connection's path; 0 when it does not.
FirstAt(path, e) ==
    IF \E i \in DOMAIN path : path[i] = e
    THEN CHOOSE i \in DOMAIN path : path[i] = e /\ \A j \in 1..(i - 1) : path[j] # e
    ELSE 0

\* C23: handleHTTPRedirect deals with one request per connection.  It writes
\* at most one response, the answer to the first request in the bytes it read
\* (http.ReadRequest parses no further, whatever was read behind it); the
\* write comes before the Close; and once it has returned, nothing is read
\* from or written to the connection, whatever the client sent after its
\* first request.
C23_OneRequestPerConnection ==
    /\ [](\A c \in ConnIds :
            LET conn == conns[c]
            IN  InPath(conn, "redirect") =>
                    /\ Len(conn.resp) <= 1
                    /\ Occurrences(conn.path, "respond") = Len(conn.resp)
                    /\ conn.resp # <<>> =>
                           conn.resp[1] = RedirectResponse(ReadRequest(conn.got))
                    /\ InPath(conn, "respond") =>
                           /\ InPath(conn, "close")
                           /\ FirstAt(conn.path, "respond") < FirstAt(conn.path, "close")
                           /\ conn.path[Len(conn.path)] = "close")
    /\ [][\A c \in ConnIds :
            InPath(conns[c], "redirect") /\ conns[c].pc = "done" =>
                conns'[c] = conns[c]]_vars

\* The client sent two requests; both were read off the socket, the first was
\* answered, and the connection was closed with that one response written.
C23_Witness ==
    \E c \in ConnIds :
        /\ conns[c].script = PipelinedScript
        /\ conns[c].got = PipelinedScript
        /\ Len(conns[c].resp) = 1
        /\ conns[c].closedBy = <<"redirect">>

\* --------------------------------------------------------------------- C24
\* The goroutine of connection c has peeked, or is about to, and nothing was
\* done with the connection before the peek.
GoesThroughClassification(c) ==
    /\ conns[c].eng # "plain"
    /\ IF conns[c].pc = "peek"
       THEN conns[c].path = <<>> /\ conns[c].got = <<>> /\ conns[c].owner = "task"
       ELSE conns[c].path[1] \in {"peekfail", "enqueue", "redirect"}

\* Connection c is served on the socket as it is: no peek, no BufferedConn,
\* no channel, no redirect.
ServedDirectly(c) ==
    /\ conns[c].path[1] = "serve"
    /\ conns[c].pc = "none"
    /\ conns[c].buf = <<>>
    /\ ~InPath(conns[c], "peekfail")
    /\ ~InPath(conns[c], "enqueue")
    /\ ~InPath(conns[c], "redirect")
    /\ conns[c].resp = <<>>

\* C24: once main serves, with --https it has bound one socket and every
\* connection on it goes through the first-byte classification; without
\* --https it has bound one socket and serves every connection directly, with
\* no peek, no classification and no ChanListener.
C24_BindingByMode ==
    mainPc \in {"https", "http"} =>
        /\ bound = 1
        /\ IF flags.https
           THEN mainPc = "https" /\ \A c \in ConnIds : GoesThroughClassification(c)
           ELSE /\ mainPc = "http"
                /\ \A c \in ConnIds : ServedDirectly(c)
                /\ sendq = <<>> /\ accepted = <<>> /\ ~recvWaiting /\ lastPeek = <<>>

\* Plain mode: a whole request read from a connection that was never peeked.
C24_Witness ==
    /\ mainPc = "http" /\ ~flags.https /\ bound = 1
    /\ Len(conns) = 1
    /\ conns[1].got = GoodScript
    /\ ServedDirectly(1)

\* --------------------------------------------------------------------- C25
\* C25: whenever ChanListener.Addr is called, before or after Close and
\* whatever Accept has done, it returns one and the same value, the address
\* of the listener net.Listen returned; that value never changes.
C25_ListenerAddress ==
    /\ [](mainPc = "https" =>
            /\ rawAddr = ListenAddr
            /\ addrVal = rawAddr
            /\ addrSeen \subseteq {rawAddr})
    /\ [][mainPc = "https" => addrVal' = addrVal /\ rawAddr' = rawAddr]_vars

\* Addr has been called, Close has been called, and Accept has returned a
\* connection.
C25_Witness ==
    /\ addrSeen = {ListenAddr}
    /\ closeCalled
    /\ accepted # <<>>

\* --------------------------------------------------------------------- C26
\* Connections classified as secure that Accept has not returned yet.
NotYetReturned ==
    {c \in ConnIds : InPath(conns[c], "enqueue") /\ Occurrences(accepted, c) = 0}

\* Connections whose goroutine is blocked in `tlsConnChan <- bufConn`.
BlockedInSend == {c \in ConnIds : conns[c].pc = "send"}

\* C26: the channel holds nothing: the secure connections not yet returned by
\* Accept are exactly those whose goroutine is blocked in the send; and
\* through any step in which Accept returns nothing, a goroutine blocked in
\* the send stays blocked and its connection stays open.
C26_ZeroCapacity ==
    /\ [](/\ NotYetReturned = BlockedInSend
          /\ Cardinality(BlockedInSend) = Len(sendq)
          /\ \A c \in BlockedInSend : conns[c].closedBy = <<>>)
    /\ [][accepted' = accepted =>
            \A c \in BlockedInSend :
                conns'[c].pc = "send" /\ conns'[c].closedBy = <<>>]_vars

\* Two goroutines blocked in the send, with no Accept waiting.
C26_Witness ==
    /\ Len(sendq) = 2
    /\ Cardinality(BlockedInSend) = 2
    /\ ~recvWaiting

\* --------------------------------------------------------------------- C27
\* C27: ChanListener.Accept never returns the "listener closed" error: the
\* channel is never closed, Close having left it open, so an Accept call has
\* either returned a connection or is waiting.
C27_AcceptNeverFails ==
    /\ acceptErrs = 0
    /\ ~chanClosed

\* Close has been called, and Accept, called again, waits with a connection
\* already returned before.
C27_Witness ==
    /\ closeCalled
    /\ accepted # <<>>
    /\ recvWaiting

\* --------------------------------------------------------------------- C28
\* Every call on the Storage has returned.
AllReturned == \A p \in 1..MaxProcs : sproc[p].pc = "idle"

\* C28: when every Add, Update, Delete and Reorder begun has returned and no
\* write of the file failed, the file holds the list that is in memory.
C28_FileMatchesMemory ==
    AllReturned /\ calls > 0 /\ ~wfail => file.exists /\ Load(file) = todos

\* Three calls, two of them overlapping (one changed the list while the other
\* was between its change and its Save), all returned, a todo stored.
C28_Witness ==
    /\ AllReturned /\ calls = MaxCalls /\ ~wfail
    /\ todos # <<>>
    /\ file.data = Marshal(todos)

\* --------------------------------------------------------------------- C29
\* The Register calls for username u that have returned.
RegisterCallsOf(u) == {i \in DOMAIN regLog : regLog[i].username = u}

\* C29 as claimed: a Register for a username already registered returns an
\* error and leaves Users as it was; and of Register calls for one new
\* username running at the same time, exactly one returns nil, and the hash
\* stored is that call's.
C29_RegisterOnce ==
    /\ \A i \in DOMAIN regLog :
           regLog[i].existed => regLog[i].err # "nil" /\ regLog[i].unchanged
    /\ \A u \in Usernames :
           LET done == RegisterCallsOf(u)
               won  == {i \in done : regLog[i].err = "nil"}
           IN  (Cardinality(done) >= 2 /\ \E i \in done : regLog[i].concurrent) =>
                   /\ Cardinality(won) = 1
                   /\ u \in DOMAIN users
                   /\ \A i \in won : users[u] = Hash(regLog[i].password)

\* --------------------------------------------------------------------- C30
\* What GetUsername(t) has to return: the user t was issued to, if t was
\* issued by CreateSession and not passed to DeleteSession since.
Expected(t) ==
    IF t \in 1..Len(issued) /\ t \notin revoked
    THEN <<issued[t], TRUE>>
    ELSE <<"", FALSE>>

\* C30: after any sequence of CreateSession and DeleteSession calls,
\* GetUsername(t) returns (u, true) exactly when t was returned by a
\* CreateSession(u) and not deleted since; a GetUsername call returns just
\* that; DeleteSession(t) leaves the mapping of every other token as it was
\* and changes nothing for a token that is not there.
C30_SessionLifecycle ==
    /\ [](\A t \in TokenInputs : GetUsername(t) = Expected(t))
    /\ [][/\ (lastSess' # lastSess /\ lastSess'[1] = "GetUsername") =>
                lastSess'[3] = Expected(lastSess'[2]) /\ sessions' = sessions
          /\ (lastSess' # lastSess /\ lastSess'[1] = "DeleteSession") =>
                /\ \A t \in TokenInputs \ {lastSess'[2]} :
                       (t \in DOMAIN sessions') = (t \in DOMAIN sessions)
                       /\ (t \in DOMAIN sessions => sessions'[t] = sessions[t])
                /\ lastSess'[2] \notin DOMAIN sessions => sessions' = sessions
                /\ lastSess'[2] \notin DOMAIN sessions'
         ]_vars

\* Two sessions of the same user, the first one deleted, the second still
\* there; the latest call was a DeleteSession of a token never issued.
C30_Witness ==
    /\ Len(issued) >= 2
    /\ issued[1] = issued[2]
    /\ revoked = {1}
    /\ GetUsername(2) = <<issued[2], TRUE>>
    /\ GetUsername(1) = <<"", FALSE>>
    /\ lastSess = <<"DeleteSession", 0>>

\* The IDs stored, in the order of the list.
IdsOf(ts) == [i \in DOMAIN ts |-> ts[i].id]

\* The last entry of a non-empty list.
Last(ts) == ts[Len(ts)]

\* C31: an Add called with Order 0 gives the todo an Order strictly greater
\* than the Order of every todo stored before the call, and a GetAll after it
\* returns that todo last; whatever Adds, Deletes and Reorders came before.
C31_AddGoesLast ==
    (lastOp.op = "Add" /\ lastOp.call.todo.order = 0) =>
        /\ Len(todos) = Len(lastOp.before) + 1
        /\ Last(todos).id = lastOp.call.todo.id
        /\ \A i \in DOMAIN lastOp.before : Last(todos).order > lastOp.before[i].order
        /\ lastOp.got => lastOp.result[Len(lastOp.result)] = Last(todos)

\* C32: Update and Reorder leave the stored IDs as they were. An Update
\* with an ID not stored leaves the list unchanged; with a stored ID it
\* changes one entry only, which then has the content, completion and order
\* given. Reorder changes nothing but Order fields, and only of entries
\* whose ID is in its list.
C32_UpdateReorderKeepIds ==
    /\ lastOp.op \in {"Update", "Reorder"} => IdsOf(todos) = IdsOf(lastOp.before)
    /\ lastOp.op = "Update" =>
          LET u == lastOp.call.todo
              b == lastOp.before
          IN  /\ (\A i \in DOMAIN b : b[i].id # u.id) => todos = b
              /\ (\E i \in DOMAIN b : b[i].id = u.id) =>
                     \E i \in DOMAIN b :
                         /\ b[i].id = u.id
                         /\ \A j \in DOMAIN b \ {i} : todos[j] = b[j]
                         /\ todos[i].content = u.content
                         /\ todos[i].completed = u.completed
                         /\ todos[i].order = u.order
    /\ lastOp.op = "Reorder" =>
          LET b == lastOp.before
              listed == {lastOp.call.ids[k] : k \in DOMAIN lastOp.call.ids}
          IN  \A i \in DOMAIN b :
                  /\ [todos[i] EXCEPT !.order = b[i].order] = b[i]
                  /\ b[i].id \notin listed => todos[i] = b[i]

\* A Reorder whose list names an ID that is not stored has just changed the
\* Order of the one stored todo it names and left the other todo alone.
C32_Witness ==
    /\ lastOp.op = "Reorder"
    /\ lastOp.call.ids = <<"zz", "b">>
    /\ Len(todos) = 2
    /\ todos[1].id = "a" /\ todos[2].id = "b"
    /\ todos[1] = lastOp.before[1]
    /\ todos[2].order = 1 /\ lastOp.before[2].order # 1

====
